---- MODULE Spec2Model ----
(***************************************************************************)
(* The two export scripts of the repository:                               *)
(*   scripts/generate_walk_network.py      (undirected-simple mode)        *)
(*   scripts/generate_kista_graphology.py  (keyed-multigraph mode)         *)
(*                                                                         *)
(* A Python dict over a known universe of keys is a record whose fields    *)
(* are options: <<>> when the key is absent, <<v>> when it maps to v.      *)
(* Python strings are TLA+ strings, str(n) is ToString(n), an f-string is  *)
(* a concatenation.  Node coordinates are kept as presence of the 'y' and  *)
(* 'x' tags only; the latitude and longitude values are not modelled.      *)
(***************************************************************************)
EXTENDS Integers, Sequences, FiniteSets, TLC

VARIABLES
    pc,          \* generate_walk_network.py: position in main()
    G,           \* the raw MultiDiGraph returned by download_kista_walk_network
    network_data,\* the document returned by process_network_for_javascript
    files,       \* what export_network has left on disk, per output file
    kpc,         \* generate_kista_graphology.py: position in to_graphology_json
    Gk,          \* raw edges G.edges(keys=True, data=True) consumed so far
    edge_seen,   \* the set edge_seen
    data,        \* data["edges"] of to_graphology_json
    cpc,         \* determine_area_type called on its own: position
    properties,  \* its argument
    area_type    \* its return value

vars == <<pc, G, network_data, files, kpc, Gk, edge_seen, data, cpc, properties, area_type>>
walkVars == <<pc, G, network_data, files>>
keyedVars == <<kpc, Gk, edge_seen, data>>
classVars == <<cpc, properties, area_type>>

\* ------------------------------------------------------------------ bounds
MaxNodes == 2
MaxEdges == 2
MaxKeyedEdges == 3

\* ------------------------------------------------------- Python dictionaries
None == "<None>"

Range(s) == {s[i] : i \in DOMAIN s}

RECURSIVE Flatten(_)
Flatten(ss) == IF ss = <<>> THEN <<>> ELSE Head(ss) \o Flatten(Tail(ss))

\* d.get(k, default)
Get(d, k, default) == IF d[k] = <<>> THEN default ELSE d[k][1]

\* k in d
Has(d, k) == d[k] # <<>>

\* bool(v) of a tag value: None and the empty string are falsy
Truthy(v) == v # None /\ v # ""

\* variant of Float: a negative number is clamped to zero
FloatClamped(v) == IF v < 0 THEN 0 ELSE v

\* float(v) of a number keeps its value and its sign
Float(v) == v

\* str(node_id) of an integer OSM id
Str(n) == ToString(n)

\* old.update(new): the keys of new override, the other keys of old stay
DictUpdate(old, new) == [k \in DOMAIN old |-> IF new[k] # <<>> THEN new[k] ELSE old[k]]

\* --------------------------------------------------------------- raw inputs
\* Attribute bags of raw nodes: both coordinate tags, none, or only 'y'.
NodeBags ==
    [y : {<<>>, <<"lat">>}, x : {<<>>, <<"lng">>},
     highway : {<<>>}, name : {<<>>}, intersection : {<<>>}]
    \ [y : {<<>>}, x : {<<"lng">>}, highway : {<<>>}, name : {<<>>}, intersection : {<<>>}]

EdgeBag(hw, len, sw, le) ==
    [highway |-> hw, name |-> <<>>, length |-> len, width |-> <<>>, surface |-> <<>>,
     lit |-> <<>>, foot |-> <<>>, sidewalk |-> sw, leisure |-> le]

\* Attribute bags of the raw edges of the graphs that vary in shape.
ShapeBags == {EdgeBag(<<>>, <<>>, <<>>, <<>>), EdgeBag(<<"footway">>, <<5>>, <<>>, <<>>)}

\* Attribute bags of the raw edge of the graphs that vary in tags.
HighwayTags == {<<>>, <<"footway">>, <<"living_street">>, <<"residential">>,
                <<"primary">>, <<"service">>}
SidewalkTags == {<<>>, <<"">>, <<"both">>}
LeisureTags == {<<>>, <<"park">>}
LengthTags == {<<>>, <<-2>>, <<0>>, <<3>>}
TagBags == {EdgeBag(hw, len, sw, le) : hw \in HighwayTags, len \in LengthTags,
                                       sw \in SidewalkTags, le \in LeisureTags}

\* G.edges iterates node by node in node order, under a node neighbour by
\* neighbour, and the parallel edges of a pair follow each other.
Grouped(s) ==
    \A i, j \in DOMAIN s : i < j =>
        /\ s[i].u <= s[j].u
        /\ (s[i].u = s[j].u /\ s[i].v = s[j].v) => \A k \in i..j : s[k].v = s[i].v

\* The parallel-edge key of the i-th edge: 0, 1, ... within its (u, v) pair.
WithKeys(s) ==
    [i \in DOMAIN s |->
        [u |-> s[i].u, v |-> s[i].v,
         key |-> Cardinality({j \in 1..(i - 1) : s[j].u = s[i].u /\ s[j].v = s[i].v}),
         data |-> s[i].data]]

RawNodes(n) == {[i \in 1..n |-> [id |-> i, data |-> f[i]]] : f \in [1..n -> NodeBags]}

RawEdges(n, bags) ==
    {WithKeys(s) : s \in {t \in UNION {[1..k -> [u : 1..n, v : 1..n, data : bags]] : k \in 0..MaxEdges} :
                              Grouped(t)}}

ShapeGraphs ==
    UNION {[nodes : RawNodes(n), edges : RawEdges(n, ShapeBags)] : n \in 0..MaxNodes}

BothCoordinates ==
    [y |-> <<"lat">>, x |-> <<"lng">>, highway |-> <<>>, name |-> <<>>, intersection |-> <<>>]

TagGraphs ==
    {[nodes |-> <<[id |-> 1, data |-> BothCoordinates], [id |-> 2, data |-> BothCoordinates]>>,
      edges |-> <<[u |-> 1, v |-> 2, key |-> 0, data |-> b]>>] : b \in TagBags}

RawGraphs == ShapeGraphs \cup TagGraphs

EmptyGraph == [nodes |-> <<>>, edges |-> <<>>]

\* ------------------------------------------------- networkx: to_undirected
SameUndirected(a, e) == {a.u, a.v} = {e.u, e.v} /\ a.key = e.key

\* MultiGraph.add_edge(u, v, key) followed by the update of its data dict
AddEdge(ue, e) ==
    IF \E i \in DOMAIN ue : SameUndirected(ue[i], e)
    THEN [i \in DOMAIN ue |->
            IF SameUndirected(ue[i], e)
            THEN [ue[i] EXCEPT !.data = DictUpdate(@, e.data)]
            ELSE ue[i]]
    ELSE Append(ue, e)

RECURSIVE AddEdgesFrom(_, _)
AddEdgesFrom(ue, es) ==
    IF es = <<>> THEN ue ELSE AddEdgesFrom(AddEdge(ue, Head(es)), Tail(es))

\* G.to_undirected(): a MultiGraph with the same nodes and every edge of G
ToUndirected(g) == [nodes |-> g.nodes, edges |-> AddEdgesFrom(<<>>, g.edges)]

Touches(e, n) == e.u = n \/ e.v = n
Other(e, n) == IF e.u = n THEN e.v ELSE e.u

\* the neighbours of n in the order they entered adj[n]
RECURSIVE NbrOrder(_, _, _)
NbrOrder(ue, n, k) ==
    IF k = 0 THEN <<>>
    ELSE LET prev == NbrOrder(ue, n, k - 1)
         IN IF Touches(ue[k], n) /\ Other(ue[k], n) \notin Range(prev)
            THEN Append(prev, Other(ue[k], n))
            ELSE prev

\* G_undirected.edges(data=True): each edge once, reported from the endpoint
\* that comes first in node order, as (n, nbr, data)
EdgesView(gu) ==
    LET Report(i) ==
            LET n == gu.nodes[i].id
                seen == {gu.nodes[j].id : j \in 1..(i - 1)}
                NotSeen(m) == m \notin seen
                nbrs == SelectSeq(NbrOrder(gu.edges, n, Len(gu.edges)), NotSeen)
                Under(m) ==
                    LET Joins(e) == Touches(e, n) /\ Other(e, n) = m
                        es == SelectSeq(gu.edges, Joins)
                    IN [x \in DOMAIN es |-> [u |-> n, v |-> m, data |-> es[x].data]]
            IN Flatten([x \in DOMAIN nbrs |-> Under(nbrs[x])])
    IN Flatten([i \in DOMAIN gu.nodes |-> Report(i)])

\* ------------------------------------- generate_walk_network.py: processing
\* d[k] of a key that is present
Item(d, k) == d[k][1]

\* the filter of the node loop
NodeKept(d) == Has(d, "y") /\ Has(d, "x")

Node(n) ==
    [id |-> Str(n.id),
     properties |-> [highway |-> Get(n.data, "highway", "intersection"),
                     name |-> Get(n.data, "name", ""),
                     intersection |-> Get(n.data, "intersection", FALSE)]]

\* the dict nodes: one entry per kept node, a later node overwriting an
\* earlier one with the same key
ExtractNodes(gu) ==
    LET kept == {i \in DOMAIN gu.nodes : NodeKept(gu.nodes[i].data)}
        keys == {Str(gu.nodes[i].id) : i \in kept}
        Last(k) == CHOOSE i \in kept :
                      /\ Str(gu.nodes[i].id) = k
                      /\ \A j \in kept : Str(gu.nodes[j].id) = k => j <= i
    IN [k \in keys |-> Node(gu.nodes[Last(k)])]

\* the dict edge['properties']; it has no key sidewalk and no key leisure
EdgeProperties(d) ==
    [highway |-> <<Get(d, "highway", "path")>>,
     name |-> <<Get(d, "name", "")>>,
     length |-> <<Float(Get(d, "length", 0))>>,
     width |-> <<Get(d, "width", None)>>,
     surface |-> <<Get(d, "surface", None)>>,
     lit |-> <<Get(d, "lit", None)>>,
     foot |-> <<Get(d, "foot", "yes")>>,
     sidewalk |-> <<>>,
     leisure |-> <<>>]

\* variant of EdgeKept: only the source endpoint is looked up
EdgeKeptSourceOnly(nodes, e) == Str(e.u) \in DOMAIN nodes

\* the filter of the edge loop
EdgeKept(nodes, e) == Str(e.u) \in DOMAIN nodes /\ Str(e.v) \in DOMAIN nodes

Edge(e) ==
    [id |-> "edge_" \o Str(e.u) \o "_" \o Str(e.v),
     from |-> Str(e.u),
     to |-> Str(e.v),
     properties |-> EdgeProperties(e.data)]

\* the (u, v, data) triples of the edge loop that pass its filter
KeptEdges(gu, nodes) ==
    LET Keep(e) == EdgeKept(nodes, e)
    IN SelectSeq(EdgesView(gu), Keep)

ExtractEdges(gu, nodes) ==
    LET view == KeptEdges(gu, nodes)
    IN [i \in DOMAIN view |-> Edge(view[i])]

\* variant of determine_area_type: the leisure rule is tried first
determine_area_type_leisure_first(props) ==
    LET highway == Get(props, "highway", "")
    IN IF Get(props, "leisure", None) = "park" THEN "plaza"
       ELSE IF highway = "footway" THEN "path"
       ELSE IF highway = "pedestrian" THEN "path"
       ELSE IF highway = "living_street" THEN "road"
       ELSE IF highway = "residential" /\ Truthy(Get(props, "sidewalk", None)) THEN "sidewalk"
       ELSE IF highway \in {"primary", "secondary", "tertiary"}
               /\ Truthy(Get(props, "sidewalk", None)) THEN "sidewalk"
       ELSE "path"

determine_area_type(props) ==
    LET highway == Get(props, "highway", "")
    IN IF highway = "footway" THEN "path"
       ELSE IF highway = "pedestrian" THEN "path"
       ELSE IF highway = "living_street" THEN "road"
       ELSE IF highway = "residential" /\ Truthy(Get(props, "sidewalk", None)) THEN "sidewalk"
       ELSE IF highway \in {"primary", "secondary", "tertiary"}
               /\ Truthy(Get(props, "sidewalk", None)) THEN "sidewalk"
       ELSE IF Get(props, "leisure", None) = "park" THEN "plaza"
       ELSE "path"

WalkableArea(edge) ==
    [id |-> edge.id, type |-> determine_area_type(edge.properties),
     properties |-> edge.properties]

\* variant of AddAdjacency: only the entry under edge['from'] is appended
AddAdjacencyOneWay(graph, edge) ==
    [graph EXCEPT ![edge.from] =
        Append(@, [to |-> edge.to,
                   distance |-> Item(edge.properties, "length"),
                   edge_id |-> edge.id])]

\* variant of AddAdjacency: the entries are inserted at the head of the lists
AddAdjacencyAtHead(graph, edge) ==
    LET g1 == [graph EXCEPT ![edge.from] =
                  <<[to |-> edge.to,
                     distance |-> Item(edge.properties, "length"),
                     edge_id |-> edge.id]>> \o @]
    IN [g1 EXCEPT ![edge.to] =
           <<[to |-> edge.from,
              distance |-> Item(edge.properties, "length"),
              edge_id |-> edge.id]>> \o @]

\* the two appends of the adjacency loop for one edge
AddAdjacency(graph, edge) ==
    LET g1 == [graph EXCEPT ![edge.from] =
                  Append(@, [to |-> edge.to,
                             distance |-> Item(edge.properties, "length"),
                             edge_id |-> edge.id])]
    IN [g1 EXCEPT ![edge.to] =
           Append(@, [to |-> edge.from,
                      distance |-> Item(edge.properties, "length"),
                      edge_id |-> edge.id])]

RECURSIVE AddAdjacencies(_, _)
AddAdjacencies(graph, edges) ==
    IF edges = <<>> THEN graph
    ELSE AddAdjacencies(AddAdjacency(graph, Head(edges)), Tail(edges))

BuildGraph(nodes, edges) == AddAdjacencies([k \in DOMAIN nodes |-> <<>>], edges)

\* variant of Metadata: the counts are those of the raw graph
MetadataOfRawGraph(g, nodes, edges) ==
    [area |-> "Kista, Stockholm",
     node_count |-> Len(g.nodes),
     edge_count |-> Len(g.edges),
     generated_at |-> "2024-01-01T00:00:00Z"]

Metadata(g, nodes, edges) ==
    [area |-> "Kista, Stockholm",
     node_count |-> Cardinality(DOMAIN nodes),
     edge_count |-> Len(edges),
     generated_at |-> "2024-01-01T00:00:00Z"]

process_network_for_javascript(g) ==
    LET G_undirected == ToUndirected(g)
        nodes == ExtractNodes(G_undirected)
        edges == ExtractEdges(G_undirected, nodes)
    IN [metadata |-> Metadata(g, nodes, edges),
        nodes |-> nodes,
        edges |-> edges,
        walkable_areas |-> [i \in DOMAIN edges |-> WalkableArea(edges[i])],
        graph |-> BuildGraph(nodes, edges)]

EmptyDocument == process_network_for_javascript(EmptyGraph)

\* ----------------------------------- generate_walk_network.py: main, export
NetworkFile == "kista_walk_network.json"
AreasFile == "walkable_areas.json"
GraphFile == "walk_graph.json"
OutputFiles == {NetworkFile, AreasFile, GraphFile}

WalkIdle ==
    /\ pc = "idle" /\ G = EmptyGraph /\ network_data = EmptyDocument
    /\ files = [f \in OutputFiles |-> "absent"]

InitWalkMain ==
    /\ pc = "start" /\ G = EmptyGraph /\ network_data = EmptyDocument
    /\ files = [f \in OutputFiles |-> "absent"]

\* download_kista_walk_network returns a graph
Download ==
    /\ pc = "start"
    /\ \E g \in RawGraphs : G' = g
    /\ pc' = "downloaded"
    /\ UNCHANGED <<network_data, files>>
    /\ UNCHANGED <<keyedVars, classVars>>

\* download_kista_walk_network raises; main prints and re-raises
DownloadFails ==
    /\ pc = "start"
    /\ pc' = "failed"
    /\ UNCHANGED <<G, network_data, files>>
    /\ UNCHANGED <<keyedVars, classVars>>

Process ==
    /\ pc = "downloaded"
    /\ network_data' = process_network_for_javascript(G)
    /\ pc' = "makedirs"
    /\ UNCHANGED <<G, files>>
    /\ UNCHANGED <<keyedVars, classVars>>

\* os.makedirs(output_dir, exist_ok=True) succeeds or raises
MakeDirs ==
    /\ pc = "makedirs"
    /\ \E ok \in BOOLEAN : pc' = IF ok THEN "write_network" ELSE "failed"
    /\ UNCHANGED <<G, network_data, files>>
    /\ UNCHANGED <<keyedVars, classVars>>

\* variant of Write: a failed write is swallowed and the export goes on
WriteAndGoOn(file, here, next) ==
    /\ pc = here
    /\ \E outcome \in {"written", "open_raises", "dump_raises"} :
          /\ files' = [files EXCEPT ![file] =
                          CASE outcome = "written" -> "written"
                            [] outcome = "dump_raises" -> "partial"
                            [] OTHER -> @]
          /\ pc' = next
    /\ UNCHANGED <<G, network_data>>
    /\ UNCHANGED <<keyedVars, classVars>>

\* with open(path, 'w') as f: json.dump(..., f): open raises and leaves the
\* file as it was, json.dump raises and leaves an incomplete file, or the
\* file is written; an exception leaves export_network and main
Write(file, here, next) ==
    /\ pc = here
    /\ \E outcome \in {"written", "open_raises", "dump_raises"} :
          /\ files' = [files EXCEPT ![file] =
                          CASE outcome = "written" -> "written"
                            [] outcome = "dump_raises" -> "partial"
                            [] OTHER -> @]
          /\ pc' = IF outcome = "written" THEN next ELSE "failed"
    /\ UNCHANGED <<G, network_data>>
    /\ UNCHANGED <<keyedVars, classVars>>

WriteNetwork == Write(NetworkFile, "write_network", "write_areas")
WriteAreas == Write(AreasFile, "write_areas", "write_graph")
WriteGraph == Write(GraphFile, "write_graph", "done")

export_network == MakeDirs \/ WriteNetwork \/ WriteAreas \/ WriteGraph

NextWalk == Download \/ DownloadFails \/ Process \/ export_network

\* --------------------------------------------- generate_kista_graphology.py
\* A raw node id or parallel-edge key is modelled by its str(); two raw
\* values of different types may share it (1 and "1").
KeyedSources == {"1", "1-2"}
KeyedTargets == {"2", "0"}
KeyedIndexes == {"0", "1"}
KeyedLengths == {<<>>, <<-2>>, <<3>>}

KeyedBag(len) == [highway |-> <<>>, length |-> len, surface |-> <<>>, foot |-> <<>>]

KeyedRawEdges ==
    [u : KeyedSources, v : KeyedTargets, key : KeyedIndexes,
     attrs : {KeyedBag(len) : len \in KeyedLengths}]

\* f"{u}-{v}-{key}"
BaseKey(e) == e.u \o "-" \o e.v \o "-" \o e.key

\* variant of UniqueKey: an if in place of the while, one suffix is tried
UniqueKeyOneSuffix(base_key, edge_key, i, seen) ==
    IF edge_key \in seen THEN base_key \o "-" \o ToString(i) ELSE edge_key

\* the while loop: edge_key is tried, then base_key-i, base_key-(i+1), ...
RECURSIVE UniqueKey(_, _, _, _)
UniqueKey(base_key, edge_key, i, seen) ==
    IF edge_key \in seen
    THEN UniqueKey(base_key, base_key \o "-" \o ToString(i), i + 1, seen)
    ELSE edge_key

EdgeAttrs(attrs) ==
    [highway |-> Get(attrs, "highway", "path"),
     length |-> Float(Get(attrs, "length", 0)),
     surface |-> Get(attrs, "surface", ""),
     foot |-> Get(attrs, "foot", "yes")]

KeyedIdle == kpc = "idle" /\ Gk = <<>> /\ edge_seen = {} /\ data = <<>>

InitKeyedMain == kpc = "edges" /\ Gk = <<>> /\ edge_seen = {} /\ data = <<>>

\* one iteration of the edge loop of to_graphology_json
KeyedEdge ==
    /\ kpc = "edges"
    /\ Len(Gk) < MaxKeyedEdges
    /\ \E e \in KeyedRawEdges :
          LET edge_key == UniqueKey(BaseKey(e), BaseKey(e), 1, edge_seen)
          IN /\ Gk' = Append(Gk, e)
             /\ edge_seen' = edge_seen \cup {edge_key}
             /\ data' = Append(data, [key |-> edge_key, source |-> e.u, target |-> e.v,
                                      attributes |-> EdgeAttrs(e.attrs)])
    /\ UNCHANGED kpc
    /\ UNCHANGED <<walkVars, classVars>>

\* the edge loop is exhausted: return data
KeyedReturn ==
    /\ kpc = "edges"
    /\ kpc' = "returned"
    /\ UNCHANGED <<Gk, edge_seen, data>>
    /\ UNCHANGED <<walkVars, classVars>>

to_graphology_json == KeyedEdge \/ KeyedReturn

\* ------------------------------------------- determine_area_type on its own
ClassifierHighways == {<<>>, <<"">>, <<"footway">>, <<"pedestrian">>, <<"living_street">>,
                       <<"residential">>, <<"primary">>, <<"secondary">>, <<"tertiary">>,
                       <<"service">>}
ClassifierSidewalks == {<<>>, <<"">>, <<"both">>, <<"no">>}
ClassifierLeisures == {<<>>, <<"park">>, <<"garden">>}

ClassifierBags ==
    {EdgeBag(hw, <<>>, sw, le) : hw \in ClassifierHighways, sw \in ClassifierSidewalks,
                                 le \in ClassifierLeisures}

ClassIdle == cpc = "idle" /\ properties = EdgeBag(<<>>, <<>>, <<>>, <<>>) /\ area_type = None

InitClassMain == cpc = "call" /\ properties \in ClassifierBags /\ area_type = None

Classify ==
    /\ cpc = "call"
    /\ area_type' = determine_area_type(properties)
    /\ cpc' = "returned"
    /\ UNCHANGED properties
    /\ UNCHANGED <<walkVars, keyedVars>>

\* ------------------------------------------------------------ specifications
InitWalk == InitWalkMain /\ KeyedIdle /\ ClassIdle
InitKeyed == WalkIdle /\ InitKeyedMain /\ ClassIdle
InitClass == WalkIdle /\ KeyedIdle /\ InitClassMain

SpecWalk == InitWalk /\ [][NextWalk]_vars
SpecKeyed == InitKeyed /\ [][to_graphology_json]_vars
SpecClass == InitClass /\ [][Classify]_vars

\* either script, or the classifier alone
Init == InitWalk \/ InitKeyed \/ InitClass
Next == NextWalk \/ to_graphology_json \/ Classify
Spec == Init /\ [][Next]_vars

\* -------------------------------------------------------------- properties
\* main() has the document of the graph it downloaded
Processed == pc \in {"makedirs", "write_network", "write_areas", "write_graph", "done", "failed"}

\* the raw (u, v, data) triple behind each entry of network_data.edges
RawOfEdges == KeptEdges(ToUndirected(G), network_data.nodes)

Keys(seq) == {seq[i].key : i \in DOMAIN seq}

\* C1: keyed-multigraph mode: the keys of the emitted edges are pairwise
\* distinct, each chosen key is new with respect to the keys chosen before it,
\* and the edge list has as many distinct keys as entries.
C1_KeysDistinct ==
    kpc \in {"edges", "returned"} =>
        /\ \A j \in DOMAIN data : data[j].key \notin {data[i].key : i \in 1..(j - 1)}
        /\ Cardinality(Keys(data)) = Len(data)
        /\ edge_seen = Keys(data)

\* two raw edges derived the same base key and the later one got a suffix
C1_Witness ==
    /\ kpc = "returned"
    /\ \E i, j \in DOMAIN Gk :
          /\ i < j
          /\ BaseKey(Gk[i]) = BaseKey(Gk[j])
          /\ data[i].key = BaseKey(Gk[i])
          /\ data[j].key # BaseKey(Gk[j])

\* C2: undirected-simple mode: no two entries of the exported edge list have
\* the same id, and each unordered node pair has at most one entry.
C2_EdgeIdsUnique ==
    Processed =>
        \A i, j \in DOMAIN network_data.edges : i # j =>
            /\ network_data.edges[i].id # network_data.edges[j].id
            /\ {network_data.edges[i].from, network_data.edges[i].to}
                  # {network_data.edges[j].from, network_data.edges[j].to}

\* C3: undirected-simple mode: a raw node with neither coordinate tag is not in
\* the node mapping, every exported edge has both endpoints in the node
\* mapping, and no raw edge with a missing endpoint is exported.
C3_NodesFilteredEdgesClosed ==
    Processed =>
        /\ \A i \in DOMAIN G.nodes :
              (~Has(G.nodes[i].data, "y") /\ ~Has(G.nodes[i].data, "x"))
                  => Str(G.nodes[i].id) \notin DOMAIN network_data.nodes
        /\ \A i \in DOMAIN network_data.edges :
              /\ network_data.edges[i].from \in DOMAIN network_data.nodes
              /\ network_data.edges[i].to \in DOMAIN network_data.nodes
        /\ \A i \in DOMAIN G.edges :
              (Str(G.edges[i].u) \notin DOMAIN network_data.nodes
                 \/ Str(G.edges[i].v) \notin DOMAIN network_data.nodes)
                  => \A j \in DOMAIN network_data.edges :
                        {network_data.edges[j].from, network_data.edges[j].to}
                            # {Str(G.edges[i].u), Str(G.edges[i].v)}

\* a node without coordinates, a raw edge that references it, and another
\* edge that is exported
C3_Witness ==
    /\ Processed
    /\ network_data.edges # <<>>
    /\ \E i \in DOMAIN G.nodes, j \in DOMAIN G.edges :
          /\ ~Has(G.nodes[i].data, "y") /\ ~Has(G.nodes[i].data, "x")
          /\ Touches(G.edges[j], G.nodes[i].id)

\* C4: metadata.node_count is the number of entries of the node mapping and
\* metadata.edge_count the length of the edge list.
C4_CountsMatch ==
    Processed =>
        /\ network_data.metadata.node_count = Cardinality(DOMAIN network_data.nodes)
        /\ network_data.metadata.edge_count = Len(network_data.edges)

\* a graph of which a node was filtered out and an edge dropped
C4_Witness ==
    /\ Processed
    /\ network_data.metadata.node_count >= 1
    /\ network_data.metadata.node_count < Len(G.nodes)
    /\ network_data.metadata.edge_count >= 1
    /\ network_data.metadata.edge_count < Len(G.edges)

RECURSIVE TotalEntries(_, _)
TotalEntries(graph, ks) ==
    IF ks = {} THEN 0
    ELSE LET k == CHOOSE x \in ks : TRUE
         IN Len(graph[k]) + TotalEntries(graph, ks \ {k})

\* C5: for every exported edge the adjacency mapping has an entry to its 'to'
\* under its 'from' and an entry to its 'from' under its 'to', both with the
\* edge's length and id; and there are two adjacency entries per edge.
C5_AdjacencySymmetric ==
    Processed =>
        /\ \A i \in DOMAIN network_data.edges :
              LET e == network_data.edges[i]
              IN /\ \E a \in Range(network_data.graph[e.from]) :
                       /\ a.to = e.to
                       /\ a.distance = Item(e.properties, "length")
                       /\ a.edge_id = e.id
                 /\ \E a \in Range(network_data.graph[e.to]) :
                       /\ a.to = e.from
                       /\ a.distance = Item(e.properties, "length")
                       /\ a.edge_id = e.id
        /\ TotalEntries(network_data.graph, DOMAIN network_data.graph)
              = 2 * Len(network_data.edges)

\* a self-loop and an edge between two nodes are exported
C5_Witness ==
    /\ Processed
    /\ \E i, j \in DOMAIN network_data.edges :
          /\ network_data.edges[i].from = network_data.edges[i].to
          /\ network_data.edges[j].from # network_data.edges[j].to

Terminal == pc \in {"done", "failed"}

\* C6: undirected-simple mode: every terminal state of main() has either all
\* three output files written or none of them written.
C6_AllOrNothing ==
    Terminal =>
        \/ \A f \in OutputFiles : files[f] = "written"
        \/ \A f \in OutputFiles : files[f] # "written"

\* C6 as amended: the files are written in the order kista_walk_network.json,
\* walkable_areas.json, walk_graph.json and the first failing write ends the
\* run: a file has been touched only if every file before it is written, all
\* three are written exactly when the run ends without an error, and a run
\* that fails leaves the files written before the failing write in place.
C6_WrittenFilesArePrefix ==
    /\ files[AreasFile] # "absent" => files[NetworkFile] = "written"
    /\ files[GraphFile] # "absent" => files[AreasFile] = "written"
    /\ Terminal => (pc = "done" <=> \A f \in OutputFiles : files[f] = "written")

\* a failed run that left one file written and at least one not written
C6_Witness ==
    /\ pc = "failed"
    /\ files[NetworkFile] = "written"
    /\ files[GraphFile] # "written"

\* the ordered rule list of the classifier, on the tags of a properties bag
TagTruthy(opt) == opt # <<>> /\ opt # <<"">>

AreaRules(p) ==
    << [hit |-> p.highway = <<"footway">>, label |-> "path"],
       [hit |-> p.highway = <<"pedestrian">>, label |-> "path"],
       [hit |-> p.highway = <<"living_street">>, label |-> "road"],
       [hit |-> p.highway = <<"residential">> /\ TagTruthy(p.sidewalk), label |-> "sidewalk"],
       [hit |-> p.highway \in {<<"primary">>, <<"secondary">>, <<"tertiary">>}
                  /\ TagTruthy(p.sidewalk), label |-> "sidewalk"],
       [hit |-> p.leisure = <<"park">>, label |-> "plaza"],
       [hit |-> TRUE, label |-> "path"] >>

FirstMatch(rules) ==
    LET first == CHOOSE i \in DOMAIN rules :
                    rules[i].hit /\ \A j \in 1..(i - 1) : ~rules[j].hit
    IN rules[first].label

\* C7: determine_area_type returns the label of the first matching rule of
\* the ordered list; the label is one of path, road, sidewalk, plaza; a bag
\* with highway footway and leisure park yields path.
C7_ClassifierFirstMatch ==
    cpc = "returned" =>
        /\ area_type = FirstMatch(AreaRules(properties))
        /\ area_type \in {"path", "road", "sidewalk", "plaza"}
        /\ (properties.highway = <<"footway">> /\ properties.leisure = <<"park">>)
              => area_type = "path"

\* a bag that matches two rules with different labels has been classified
C7_Witness ==
    /\ cpc = "returned"
    /\ properties.highway = <<"footway">>
    /\ properties.leisure = <<"park">>
    /\ area_type = "path"

\* C8: through the whole undirected-simple pipeline the type of each walkable
\* area is the classifier's decision on the tags of its raw edge: residential
\* with a truthy sidewalk tag gives sidewalk, leisure park with no matching
\* highway rule gives plaza.
C8_AreaTypeFollowsRawTags ==
    Processed =>
        LET raw == RawOfEdges
        IN \A i \in DOMAIN network_data.walkable_areas :
              network_data.walkable_areas[i].type = FirstMatch(AreaRules(raw[i].data))

\* C9: every exported edge length and every adjacency distance is
\* non-negative, whatever the raw length tag, in both scripts.
C9_LengthsNonNegative ==
    /\ Processed =>
          /\ \A i \in DOMAIN network_data.edges :
                Item(network_data.edges[i].properties, "length") >= 0
          /\ \A k \in DOMAIN network_data.graph :
                \A a \in Range(network_data.graph[k]) : a.distance >= 0
    /\ \A i \in DOMAIN data : data[i].attributes.length >= 0

RawLength(d) == IF d.length = <<>> THEN 0 ELSE d.length[1]

\* C9 as amended: the exported length of an edge is its raw length tag, and 0
\* when the raw edge has no length tag, in both scripts; so it is non-negative
\* exactly when the raw length is absent or non-negative, and a negative raw
\* length is exported as it is.
C9_LengthIsRawLength ==
    /\ Processed =>
          LET raw == RawOfEdges
          IN \A i \in DOMAIN network_data.edges :
                /\ Item(network_data.edges[i].properties, "length") = RawLength(raw[i].data)
                /\ Item(network_data.edges[i].properties, "length") >= 0
                      <=> (~Has(raw[i].data, "length") \/ Item(raw[i].data, "length") >= 0)
    /\ \A i \in DOMAIN data :
          /\ data[i].attributes.length = RawLength(Gk[i].attrs)
          /\ data[i].attributes.length >= 0
                <=> (~Has(Gk[i].attrs, "length") \/ Item(Gk[i].attrs, "length") >= 0)

\* an edge with a negative raw length has been exported
C9_Witness ==
    \/ /\ Processed
       /\ \E i \in DOMAIN network_data.edges :
             /\ RawOfEdges[i].data.length = <<-2>>
             /\ Item(network_data.edges[i].properties, "length") = -2
    \/ /\ kpc = "returned"
       /\ \E i \in DOMAIN data : Gk[i].attrs.length = <<-2>> /\ data[i].attributes.length = -2

AdjacencyEntries(e, k) ==
    (IF e.from = k
        THEN <<[to |-> e.to, distance |-> Item(e.properties, "length"), edge_id |-> e.id]>>
        ELSE <<>>)
    \o (IF e.to = k
        THEN <<[to |-> e.from, distance |-> Item(e.properties, "length"), edge_id |-> e.id]>>
        ELSE <<>>)

\* C10: the adjacency mapping has exactly the keys of the node mapping, and
\* the list of each node holds the entries of the edges that touch it in
\* edge-list order: the entries of an earlier edge before those of a later one.
C10_AdjacencyKeysAndOrder ==
    Processed =>
        /\ DOMAIN network_data.graph = DOMAIN network_data.nodes
        /\ \A k \in DOMAIN network_data.nodes :
              network_data.graph[k]
                 = Flatten([i \in DOMAIN network_data.edges |->
                               AdjacencyEntries(network_data.edges[i], k)])

\* a node that no edge touches, and a node whose list has the entries of two
\* edges that differ
C10_Witness ==
    /\ Processed
    /\ \E k \in DOMAIN network_data.nodes : network_data.graph[k] = <<>>
    /\ \E k \in DOMAIN network_data.nodes, i, j \in DOMAIN network_data.edges :
          /\ i < j
          /\ k \in {network_data.edges[i].from, network_data.edges[i].to}
          /\ k \in {network_data.edges[j].from, network_data.edges[j].to}
          /\ network_data.edges[i].properties # network_data.edges[j].properties

====
